---------------------------- MODULE Spec2Model ----------------------------
(***************************************************************************)
(* Model of the shopping-cart discount service (src/main.go).              *)
(*                                                                         *)
(* Amounts.  The program computes on float64.  The model represents an     *)
(* amount by an integer number of ticks, 3200 ticks to the currency unit,  *)
(* so that one cent is 32 ticks and 1/32 of the unit is 100 ticks.  Input  *)
(* prices are multiples of 100 ticks (dyadic rationals, exactly            *)
(* representable in binary) and discount values are such that              *)
(* price * value / 100 is dyadic too; on these inputs every float64        *)
(* operation of the program before formatting is exact, and the integer    *)
(* arithmetic below computes the same numbers.  A formatted-and-reparsed   *)
(* amount is the float64 nearest to a whole number of cents; it is         *)
(* represented by that number of cents (a multiple of Cent).  A float64    *)
(* sum of a few such values differs from the decimal sum by far less than  *)
(* half a cent, so formatting it to two digits yields the decimal sum; the *)
(* model adds the cents exactly.                                           *)
(*                                                                         *)
(* Memory.  A Go slice is a reference to a backing array: heap maps array  *)
(* identities to their contents, a Cart holds the identity of its          *)
(* LineItems array, and a write through one slice is seen through every    *)
(* slice with the same identity.                                           *)
(***************************************************************************)
EXTENDS Integers, Sequences, FiniteSets, TLC

VARIABLES config, heap, test, sel, faults, req

vars == <<config, heap, test, sel, faults, req>>

---------------------------------------------------------------------------
(* Bounds of the model *)

\* longest cart (and candidate list) built by a direct caller
MaxItems == 2

\* longest line-item list in a request body
MaxBodyItems == 2

\* concurrent requests in flight
Requests == {1, 2}

\* input prices, in ticks: 0.09375, 0.25, 1.00
Prices == {300, 800, 3200}

\* SKUs a cart may carry: prerequisite only, prerequisite and eligible,
\* eligible only, neither
Skus == {"PEANUT-BUTTER", "COCOA", "CHOCOLATE", "another-sku"}

\* values the caller may leave in the computed fields (Total, DiscountedPrice)
StaleAmounts == {0, 99968}

---------------------------------------------------------------------------
(* Amounts and their decimal text *)

Cent == 32

Dollar == 100 * Cent

Digits == <<"0", "1", "2", "3", "4", "5", "6", "7", "8", "9">>

DigitChars == {Digits[i] : i \in 1..10}

DigitVal(ch) == (CHOOSE i \in 1..10 : Digits[i] = ch) - 1

RECURSIVE Itoa(_)
Itoa(n) ==
    IF n < 10 THEN <<Digits[n + 1]>>
    ELSE Append(Itoa(n \div 10), Digits[(n % 10) + 1])

RECURSIVE Atoi(_)
Atoi(s) ==
    IF Len(s) = 0 THEN 0
    ELSE 10 * Atoi(SubSeq(s, 1, Len(s) - 1)) + DigitVal(s[Len(s)])

RECURSIVE Pow10(_)
Pow10(k) == IF k = 0 THEN 1 ELSE 10 * Pow10(k - 1)

\* fmt.Sprintf("%.2f", amount): the decimal expansion of the amount cut to two
\* fractional digits, rounded to nearest, an exact half going to the even digit
\* (strconv rounds the exact decimal expansion of the binary value half-to-even).
Sprintf2f(amount) ==
    LET neg   == amount < 0
        mag   == IF neg THEN -amount ELSE amount
        q     == mag \div Cent
        r     == mag % Cent
        up    == 2 * r > Cent \/ (2 * r = Cent /\ q % 2 = 1)
        cents == IF up THEN q + 1 ELSE q
        frac  == cents % 100
    IN  (IF neg THEN <<"-">> ELSE <<>>)
            \o Itoa(cents \div 100)
            \o <<".">>
            \o <<Digits[(frac \div 10) + 1], Digits[(frac % 10) + 1]>>

\* strconv.ParseFloat(s, 64) on plain decimal text: an optional sign, digits
\* with at most one point and at least one digit.  Anything else is a syntax
\* error.  (Exponents, hexadecimal, infinities and NaN are not produced by the
\* program's formatting and are outside the model.)
ParseFloat(s) ==
    LET signed == Len(s) > 0 /\ s[1] \in {"-", "+"}
        neg    == Len(s) > 0 /\ s[1] = "-"
        body   == IF signed THEN Tail(s) ELSE s
        dots   == {i \in 1..Len(body) : body[i] = "."}
        ok     == /\ \A i \in 1..Len(body) : body[i] \in DigitChars \cup {"."}
                  /\ Cardinality(dots) <= 1
                  /\ \E i \in 1..Len(body) : body[i] \in DigitChars
        dot    == IF dots = {} THEN Len(body) + 1 ELSE CHOOSE i \in dots : TRUE
        whole  == SubSeq(body, 1, dot - 1)
        frac   == SubSeq(body, dot + 1, Len(body))
        scale  == Pow10(Len(frac))
        mag    == ((Atoi(whole) * scale + Atoi(frac)) * Dollar) \div scale
    IN  IF ok THEN [val |-> IF neg THEN -mag ELSE mag, err |-> FALSE]
        ELSE [val |-> 0, err |-> TRUE]

---------------------------------------------------------------------------
(* Data *)

NoErr == "nil"

ErrEmptyList == "empty list of products"

ErrUnsupported == "unsupported discount method"

NilSlice == <<"nil">>

NilItem == [Name |-> "", Price |-> 0, Sku |-> "", DiscountedPrice |-> 0]

\* Cart{}
ZeroCart == [Reference |-> "", LineItems |-> NilSlice, Total |-> 0]

Configuration(unit, value) ==
    [PrerequisiteSkus |-> <<"PEANUT-BUTTER", "COCOA", "FRUITY">>,
     EligibleSkus     |-> <<"BANANA-CAKE", "COCOA", "CHOCOLATE">>,
     DiscountUnit     |-> unit,
     DiscountValue    |-> value]

\* the compiled-in configuration, and the other deployments the model covers
Configurations ==
    {Configuration("percentage", 50),
     Configuration("percentage", 25),
     Configuration("percentage", 100),
     Configuration("fixed", 50)}

NewCashier(cfg) == [config |-> cfg]

LineItem(name, price, sku, discounted) ==
    [Name |-> name, Price |-> price, Sku |-> sku, DiscountedPrice |-> discounted]

---------------------------------------------------------------------------
(* Cashier *)

\* parseFloat: format to two fractional digits and parse the text back.
\* parseFails states that strconv.ParseFloat reported an error on this text.
parseFloat(amount, parseFails) ==
    LET formatted == Sprintf2f(amount)
        parsed    == IF parseFails THEN [val |-> 0, err |-> TRUE]
                     ELSE ParseFloat(formatted)
    IN  IF parsed.err THEN -Dollar ELSE parsed.val

SkuSet(list) == {list[i] : i \in 1..Len(list)}

getEligibleForDiscount(c, items) ==
    LET eligibleSkus == SkuSet(c.config.EligibleSkus)
    IN  SelectSeq(items, LAMBDA item : item.Sku \in eligibleSkus)

hasPrerequisiteSku(c, items) ==
    LET prerequisiteSkus == SkuSet(c.config.PrerequisiteSkus)
    IN  \E i \in 1..Len(items) : items[i].Sku \in prerequisiteSkus

CheaperOrEqual(cheapest, item) == cheapest.Price >= item.Price

\* the comparison that replaces the running candidate
Cheaper(cheapest, item) == cheapest.Price > item.Price

RECURSIVE scanCheapest(_, _, _)
scanCheapest(items, i, cheapest) ==
    IF i > Len(items) THEN cheapest
    ELSE scanCheapest(items, i + 1,
                      IF Cheaper(cheapest, items[i]) THEN items[i] ELSE cheapest)

getCheapestProduct(items) ==
    IF Len(items) < 1 THEN [item |-> NilItem, isNil |-> TRUE, err |-> ErrEmptyList]
    ELSE [item |-> scanCheapest(items, 1, items[1]), isNil |-> FALSE, err |-> NoErr]

calculateDiscountAnyUnit(c, amount) ==
    [val |-> (amount * c.config.DiscountValue) \div 100, err |-> NoErr]

calculateDiscount(c, amount) ==
    IF c.config.DiscountUnit = "percentage"
    THEN [val |-> (amount * c.config.DiscountValue) \div 100, err |-> NoErr]
    ELSE [val |-> -Dollar, err |-> ErrUnsupported]

\* make + copy: a new backing array holding the cart's line items
CopyLineItemsAliased(h, cart, owner) ==
    [heap |-> h, discountedItems |-> cart.LineItems]

CopyLineItemsShared(h, cart, owner) ==
    LET dst == <<0, "discountedItems">>
    IN  [heap |-> (dst :> h[cart.LineItems]) @@ h, discountedItems |-> dst]

CopyLineItems(h, cart, owner) ==
    LET dst == <<owner, "discountedItems">>
    IN  [heap |-> (dst :> h[cart.LineItems]) @@ h, discountedItems |-> dst]

EligibleItemsUnguarded(c, items) == getEligibleForDiscount(c, items)

\* var eligibleItems []LineItem; filled only when a prerequisite is present
EligibleItems(c, items) ==
    IF hasPrerequisiteSku(c, items) THEN getEligibleForDiscount(c, items)
    ELSE <<>>

SelectAlways(eligibleItems) == TRUE

\* the guard of the selection block
ShouldSelect(eligibleItems) == Len(eligibleItems) > 0

NoSelection == [err |-> NoErr, discountedSKU |-> "", discountValue |-> 0]

\* eligibility, cheapest selection and discount amount
selectDiscount(c, items) ==
    LET eligibleItems == EligibleItems(c, items)
    IN  IF ShouldSelect(eligibleItems)
        THEN LET cheapest == getCheapestProduct(eligibleItems)
             IN  IF cheapest.err # NoErr
                 THEN [NoSelection EXCEPT !.err = cheapest.err]
                 ELSE LET discountAmount == calculateDiscount(c, cheapest.item.Price)
                      IN  IF discountAmount.err # NoErr
                          THEN [NoSelection EXCEPT !.err = discountAmount.err]
                          ELSE [err           |-> NoErr,
                                discountedSKU |-> cheapest.item.Sku,
                                discountValue |-> discountAmount.val]
        ELSE NoSelection

ItemDiscountAll(item, discountedSKU, discountValue) == discountValue

ItemDiscount(item, discountedSKU, discountValue) ==
    IF item.Sku = discountedSKU THEN discountValue ELSE 0

\* one iteration of the pricing loop, on element i of the array
applyItem(h, ref, i, chosen, total, parseFails) ==
    LET item == h[ref][i]
        itemDiscount == ItemDiscount(item, chosen.discountedSKU, chosen.discountValue)
        price == parseFloat(item.Price - itemDiscount, parseFails)
    IN  [heap  |-> [h EXCEPT ![ref][i].DiscountedPrice = price],
         total |-> total + price]

RECURSIVE applyAll(_, _, _, _, _, _, _)
applyAll(h, ref, i, n, chosen, total, F) ==
    IF i > n THEN [heap |-> h, total |-> total]
    ELSE LET a == applyItem(h, ref, i, chosen, total, i \in F)
         IN  applyAll(a.heap, ref, i + 1, n, chosen, a.total, F)

ResultCartStaleTotal(cart, discountedItems, total, parseFails) ==
    [Reference |-> cart.Reference,
     LineItems |-> discountedItems,
     Total     |-> cart.Total]

\* the returned Cart
ResultCart(cart, discountedItems, total, parseFails) ==
    [Reference |-> cart.Reference,
     LineItems |-> discountedItems,
     Total     |-> parseFloat(total, parseFails)]

\* CalculateTotalWithDiscount run from entry to return with nothing in between.
\* F is the set of rounding calls (1..n the items, n+1 the total) on which
\* strconv.ParseFloat reports an error.
CalculateTotalWithDiscount(c, cart, h, owner, F) ==
    LET cp == CopyLineItems(h, cart, owner)
        n  == Len(cp.heap[cp.discountedItems])
        s  == selectDiscount(c, cp.heap[cp.discountedItems])
    IN  IF s.err # NoErr
        THEN [cart |-> ZeroCart, err |-> s.err, heap |-> cp.heap]
        ELSE LET a == applyAll(cp.heap, cp.discountedItems, 1, n, s, 0, F)
             IN  [cart |-> ResultCart(cart, cp.discountedItems, a.total, (n + 1) \in F),
                  err  |-> NoErr,
                  heap |-> a.heap]

---------------------------------------------------------------------------
(* Direct callers of the Cashier (the package's test functions) *)

Names == {"Cocoa", "Chocolate"}

Items(stale) ==
    {LineItem(name, price, sku, stale) : name \in Names, price \in Prices, sku \in Skus}

ItemSeqs(stale, max) == UNION {[1..k -> Items(stale)] : k \in 0..max}

NoTest == [pc |-> "idle", cart |-> ZeroCart, newCart |-> ZeroCart, err |-> NoErr]

NoSel == [called |-> FALSE, items |-> <<>>, item |-> NilItem, isNil |-> TRUE, err |-> NoErr]

NoHeap == [id \in {} |-> <<>>]

\* no Cashier constructed yet
NilCashier == [config |-> <<>>]

NoReq ==
    [pc |-> "idle", cart |-> ZeroCart, cashier |-> NilCashier,
     discountedItems |-> NilSlice, chosen |-> NoSelection, i |-> 0, total |-> 0,
     newCart |-> ZeroCart, err |-> NoErr, resp |-> [status |-> 0, text |-> "", json |-> <<>>]]

Init ==
    /\ config \in Configurations
    /\ heap = NoHeap
    /\ test = NoTest
    /\ sel = NoSel
    /\ faults = {}
    /\ req = [r \in Requests |-> NoReq]

\* a caller builds a cart value; its line items live in an array of the caller's
BuildCart ==
    /\ test.pc = "idle"
    /\ ~sel.called
    /\ \E stale \in StaleAmounts :
         \E items \in ItemSeqs(stale, MaxItems) :
            /\ heap' = (<<0, "lineItems">> :> items)
            /\ test' = [pc      |-> "built",
                        cart    |-> [Reference |-> "2d832fe0",
                                     LineItems |-> <<0, "lineItems">>,
                                     Total     |-> stale],
                        newCart |-> ZeroCart,
                        err     |-> NoErr]
    /\ sel' = NoSel
    /\ faults' = {}
    /\ UNCHANGED <<config, req>>

\* cashier := NewCashier(config); actual, err := cashier.CalculateTotalWithDiscount(cart)
CallCalculate(F) ==
    LET res == CalculateTotalWithDiscount(NewCashier(config), test.cart, heap, 0, F)
    IN  /\ heap' = res.heap
        /\ test' = [test EXCEPT !.pc = "returned", !.newCart = res.cart, !.err = res.err]
        /\ faults' = F
        /\ UNCHANGED <<config, sel, req>>

TestCalculateCartDiscount ==
    /\ test.pc = "built"
    /\ CallCalculate({})

\* the same call when strconv.ParseFloat reports an error on some rounding calls
TestCalculateUnderParseError ==
    /\ test.pc = "built"
    /\ \E F \in (SUBSET (1..(Len(heap[test.cart.LineItems]) + 1))) \ {{}} :
          CallCalculate(F)

\* actual, err := cashier.getCheapestProduct(cartItems)
TestGetCheapestProduct ==
    /\ test.pc = "idle"
    /\ ~sel.called
    /\ \E items \in ItemSeqs(0, MaxItems) :
          LET res == getCheapestProduct(items)
          IN  sel' = [called |-> TRUE, items |-> items, item |-> res.item,
                      isNil |-> res.isNil, err |-> res.err]
    /\ test' = NoTest
    /\ heap' = NoHeap
    /\ faults' = {}
    /\ UNCHANGED <<config, req>>

\* the test case ends; its values are dropped
EndCase ==
    /\ test.pc = "returned" \/ sel.called
    /\ test' = NoTest
    /\ sel' = NoSel
    /\ heap' = NoHeap
    /\ faults' = {}
    /\ UNCHANGED <<config, req>>

Next == BuildCart \/ TestCalculateCartDiscount \/ TestGetCheapestProduct \/ EndCase

Spec == Init /\ [][Next]_vars

NextFault == BuildCart \/ TestCalculateUnderParseError \/ EndCase

SpecFault == Init /\ [][NextFault]_vars

---------------------------------------------------------------------------
(* The request handler, one goroutine per request *)

\* line items a request body may carry
BodyItems ==
    {LineItem("Cocoa", 800, "COCOA", 0),
     LineItem("Cocoa", 3200, "COCOA", 0),
     LineItem("Other", 3200, "another-sku", 0)}

\* a body that does not decode, or the line items of one that does
Bodies ==
    {[decodes |-> FALSE, lineItems |-> <<>>]}
        \cup {[decodes |-> TRUE, lineItems |-> items] :
                  items \in UNION {[1..k -> BodyItems] : k \in 0..MaxBodyItems}}

\* json.NewEncoder(w).Encode(newCart): the cart written out with its line items
Encode(cart, h) ==
    LET items == IF cart.LineItems = NilSlice THEN <<>> ELSE h[cart.LineItems]
    IN  [reference |-> cart.Reference,
         lineItems |-> [k \in 1..Len(items) |->
                           [name            |-> items[k].Name,
                            price           |-> items[k].Price,
                            sku             |-> items[k].Sku,
                            discountedPrice |-> items[k].DiscountedPrice]],
         total     |-> cart.Total]

\* http.Error(w, text, code)
HttpError(text, code) == [status |-> code, text |-> text, json |-> <<>>]

\* json.NewDecoder(r.Body).Decode(&cartRequest)
Decode(r) ==
    /\ req[r].pc = "idle"
    /\ \E body \in Bodies :
          \/ /\ ~body.decodes
             /\ req' = [req EXCEPT ![r].pc = "done",
                                   ![r].resp = HttpError("invalid payload", 400)]
             /\ heap' = heap
          \/ /\ body.decodes
             /\ heap' = (<<r, "lineItems">> :> body.lineItems) @@ heap
             /\ req' = [req EXCEPT ![r].pc = "decoded",
                                   ![r].cart = [Reference |-> "2d832fe0",
                                                LineItems |-> <<r, "lineItems">>,
                                                Total     |-> 0]]
    /\ UNCHANGED <<config, test, sel, faults>>

AcceptsEveryCart(lineItems) == FALSE

\* len(cartRequest.Cart.LineItems) == 0
IsEmptyCart(lineItems) == Len(lineItems) = 0

Validate(r) ==
    /\ req[r].pc = "decoded"
    /\ \/ /\ IsEmptyCart(heap[req[r].cart.LineItems])
          /\ req' = [req EXCEPT ![r].pc = "done",
                                ![r].resp = HttpError("empty cart", 400)]
       \/ /\ ~IsEmptyCart(heap[req[r].cart.LineItems])
          /\ req' = [req EXCEPT ![r].pc = "validated"]
    /\ UNCHANGED <<config, heap, test, sel, faults>>

\* cashier := NewCashier(config)
MakeCashier(r) ==
    /\ req[r].pc = "validated"
    /\ req' = [req EXCEPT ![r].pc = "call", ![r].cashier = NewCashier(config)]
    /\ UNCHANGED <<config, heap, test, sel, faults>>

\* CalculateTotalWithDiscount, entry: the copy of the line items
Enter(r) ==
    /\ req[r].pc = "call"
    /\ LET cp == CopyLineItems(heap, req[r].cart, r)
       IN  /\ heap' = cp.heap
           /\ req' = [req EXCEPT ![r].pc = "select",
                                 ![r].discountedItems = cp.discountedItems,
                                 ![r].total = 0]
    /\ UNCHANGED <<config, test, sel, faults>>

\* CalculateTotalWithDiscount, selection; an error returns Cart{}, err
Select(r) ==
    /\ req[r].pc = "select"
    /\ LET s == selectDiscount(req[r].cashier, heap[req[r].discountedItems])
       IN  \/ /\ s.err # NoErr
              /\ req' = [req EXCEPT ![r].pc = "returned",
                                    ![r].newCart = ZeroCart,
                                    ![r].err = s.err]
           \/ /\ s.err = NoErr
              /\ req' = [req EXCEPT ![r].pc = "loop", ![r].chosen = s, ![r].i = 1]
    /\ UNCHANGED <<config, heap, test, sel, faults>>

\* CalculateTotalWithDiscount, one iteration of the pricing loop
Loop(r) ==
    /\ req[r].pc = "loop"
    /\ req[r].i <= Len(heap[req[r].discountedItems])
    /\ LET a == applyItem(heap, req[r].discountedItems, req[r].i, req[r].chosen,
                          req[r].total, FALSE)
       IN  /\ heap' = a.heap
           /\ req' = [req EXCEPT ![r].i = @ + 1, ![r].total = a.total]
    /\ UNCHANGED <<config, test, sel, faults>>

\* CalculateTotalWithDiscount, the return of the priced cart
Return(r) ==
    /\ req[r].pc = "loop"
    /\ req[r].i > Len(heap[req[r].discountedItems])
    /\ req' = [req EXCEPT ![r].pc = "returned",
                          ![r].newCart = ResultCart(req[r].cart, req[r].discountedItems,
                                                    req[r].total, FALSE),
                          ![r].err = NoErr]
    /\ UNCHANGED <<config, heap, test, sel, faults>>

\* the handler's answer to what the Cashier returned
Respond(r) ==
    /\ req[r].pc = "returned"
    /\ \/ /\ req[r].err # NoErr
          /\ req' = [req EXCEPT ![r].pc = "done",
                                ![r].resp = HttpError("invalid cart data", 400)]
       \/ /\ req[r].err = NoErr
          /\ req' = [req EXCEPT ![r].pc = "done",
                                ![r].resp = [status |-> 200,
                                             text   |-> "",
                                             json   |-> <<Encode(req[r].newCart, heap)>>]]
    /\ UNCHANGED <<config, heap, test, sel, faults>>

\* the request is over; its values are garbage
Finish(r) ==
    /\ req[r].pc = "done"
    /\ req' = [req EXCEPT ![r] = NoReq]
    /\ heap' = [id \in {x \in DOMAIN heap : x[1] # r} |-> heap[id]]
    /\ UNCHANGED <<config, test, sel, faults>>

NextServer ==
    \E r \in Requests :
        \/ Decode(r)
        \/ Validate(r)
        \/ MakeCashier(r)
        \/ Enter(r)
        \/ Select(r)
        \/ Loop(r)
        \/ Return(r)
        \/ Respond(r)
        \/ Finish(r)

SpecServer == Init /\ [][NextServer]_vars

---------------------------------------------------------------------------
(* Vocabulary of the properties *)

Abs(x) == IF x < 0 THEN -x ELSE x

\* v is a whole number of cents nearest to num/den (den > 0)
IsRound2(v, num, den) ==
    /\ v % Cent = 0
    /\ 2 * Abs(den * v - num) <= den * Cent

RECURSIVE SumPrice(_)
SumPrice(items) ==
    IF Len(items) = 0 THEN 0 ELSE items[1].Price + SumPrice(Tail(items))

RECURSIVE SumDiscounted(_)
SumDiscounted(items) ==
    IF Len(items) = 0 THEN 0 ELSE items[1].DiscountedPrice + SumDiscounted(Tail(items))

\* the direct caller's cart as it stands in the caller's array, and the
\* line items of the cart it got back
InItems == heap[test.cart.LineItems]

OutItems == IF test.newCart.LineItems = NilSlice THEN <<>> ELSE heap[test.newCart.LineItems]

Returned == test.pc = "returned"

IsPrerequisite(sku) == \E k \in 1..Len(config.PrerequisiteSkus) : config.PrerequisiteSkus[k] = sku

IsEligible(sku) == \E k \in 1..Len(config.EligibleSkus) : config.EligibleSkus[k] = sku

PrerequisitePresent(items) == \E i \in 1..Len(items) : IsPrerequisite(items[i].Sku)

EligibleIndexes(items) == {i \in 1..Len(items) : IsEligible(items[i].Sku)}

\* the earliest position holding the lowest price among the positions idx
FirstCheapest(items, idx) ==
    CHOOSE i \in idx :
        \A j \in idx : \/ items[i].Price < items[j].Price
                       \/ items[i].Price = items[j].Price /\ i <= j

SameButDiscounted(out, in) ==
    /\ out.Name = in.Name
    /\ out.Price = in.Price
    /\ out.Sku = in.Sku

---------------------------------------------------------------------------
(* Properties *)

(* C1: under a percentage configuration, for a cart with a prerequisite SKU
   and at least one eligible item, the call succeeds; every line item whose
   SKU is that of the cheapest eligible item (earliest among equal prices)
   gets price - cheapest.price * discount_value / 100 rounded to the cent,
   and every other line item gets its price rounded to the cent. *)
C1_CheapestSkuDiscounted ==
    (/\ Returned
     /\ config.DiscountUnit = "percentage"
     /\ PrerequisitePresent(InItems)
     /\ EligibleIndexes(InItems) # {})
    => /\ test.err = NoErr
       /\ Len(OutItems) = Len(InItems)
       /\ LET cheapest == InItems[FirstCheapest(InItems, EligibleIndexes(InItems))]
          IN  \A i \in 1..Len(InItems) :
                /\ SameButDiscounted(OutItems[i], InItems[i])
                /\ IF InItems[i].Sku = cheapest.Sku
                   THEN IsRound2(OutItems[i].DiscountedPrice,
                                 100 * InItems[i].Price
                                    - cheapest.Price * config.DiscountValue, 100)
                   ELSE IsRound2(OutItems[i].DiscountedPrice, InItems[i].Price, 1)

\* two line items share the winning SKU, the dearer one is discounted too,
\* and a third SKU would not be
C1_Witness ==
    /\ Returned
    /\ test.err = NoErr
    /\ config.DiscountUnit = "percentage"
    /\ PrerequisitePresent(InItems)
    /\ \E i, j \in EligibleIndexes(InItems) :
          /\ InItems[i].Sku = InItems[j].Sku
          /\ InItems[i].Price < InItems[j].Price
          /\ OutItems[j].DiscountedPrice < InItems[j].Price - Cent

(* C2 as written: with no prerequisite SKU in the cart the call succeeds,
   every discountedPrice is the price rounded to the cent, and total is the
   sum of the input prices, rounded to the cent. *)
C2_TotalIsRoundedSumOfPrices ==
    (Returned /\ ~PrerequisitePresent(InItems))
    => /\ test.err = NoErr
       /\ Len(OutItems) = Len(InItems)
       /\ \A i \in 1..Len(InItems) :
             IsRound2(OutItems[i].DiscountedPrice, InItems[i].Price, 1)
       /\ IsRound2(test.newCart.Total, SumPrice(InItems), 1)

(* C2 amended: with no prerequisite SKU in the cart the call succeeds, every
   discountedPrice is the price rounded to the cent (eligible SKUs included),
   and total is the sum of those rounded prices. *)
C2_NoPrerequisiteNoDiscount ==
    (Returned /\ ~PrerequisitePresent(InItems))
    => /\ test.err = NoErr
       /\ Len(OutItems) = Len(InItems)
       /\ \A i \in 1..Len(InItems) :
             /\ SameButDiscounted(OutItems[i], InItems[i])
             /\ IsRound2(OutItems[i].DiscountedPrice, InItems[i].Price, 1)
       /\ test.newCart.Total = SumDiscounted(OutItems)

\* an eligible SKU is in the cart, no prerequisite is, and the rounded prices
\* do not add up to the rounded sum
C2_Witness ==
    /\ Returned
    /\ test.err = NoErr
    /\ ~PrerequisitePresent(InItems)
    /\ EligibleIndexes(InItems) # {}
    /\ Len(InItems) >= 2
    /\ ~IsRound2(test.newCart.Total, SumPrice(InItems), 1)

(* C3 as written: with a discount unit other than "percentage" the call fails
   with the unsupported-discount-unit error, and returns no priced cart, for
   every cart with at least one line item. *)
C3_EveryCartFails ==
    (Returned /\ config.DiscountUnit # "percentage" /\ Len(InItems) >= 1)
    => /\ test.err = ErrUnsupported
       /\ test.newCart = ZeroCart

(* C3 amended: with a discount unit other than "percentage" the call fails
   with the unsupported-discount-unit error, and returns no priced cart,
   exactly for the carts that hold a prerequisite SKU and an eligible item;
   every other cart is priced without a discount. *)
C3_FailsWhenDiscountIsDue ==
    (Returned /\ config.DiscountUnit # "percentage" /\ Len(InItems) >= 1)
    => IF PrerequisitePresent(InItems) /\ EligibleIndexes(InItems) # {}
       THEN /\ test.err = ErrUnsupported
            /\ test.newCart = ZeroCart
       ELSE /\ test.err = NoErr
            /\ test.newCart.Total = SumDiscounted(OutItems)
            /\ \A i \in 1..Len(InItems) :
                  IsRound2(OutItems[i].DiscountedPrice, InItems[i].Price, 1)

C3_Witness ==
    /\ Returned
    /\ config.DiscountUnit # "percentage"
    /\ Len(InItems) >= 1
    /\ test.err = ErrUnsupported
    /\ test.newCart = ZeroCart

(* C4: on a non-empty candidate list getCheapestProduct returns, without an
   error, the candidate of lowest price that comes first in the list. *)
C4_FirstCheapest ==
    (sel.called /\ Len(sel.items) >= 1)
    => /\ sel.err = NoErr
       /\ ~sel.isNil
       /\ sel.item = sel.items[FirstCheapest(sel.items, 1..Len(sel.items))]

\* two different candidates share the lowest price; the first was returned
C4_Witness ==
    /\ sel.called
    /\ \E i, j \in 1..Len(sel.items) :
          /\ i < j
          /\ sel.items[i].Price = sel.items[j].Price
          /\ sel.items[i] # sel.items[j]
          /\ \A k \in 1..Len(sel.items) : sel.items[k].Price >= sel.items[i].Price
          /\ sel.item = sel.items[i]

(* C5: the total of a returned cart is the sum of the returned line items'
   discountedPrice values rounded to the cent, whatever total and
   discountedPrice the input cart carried. *)
C5_TotalIsSumOfDiscounted ==
    (Returned /\ test.err = NoErr)
    => IsRound2(test.newCart.Total, SumDiscounted(OutItems), 1)

\* the input carried a stale total and stale discounted prices
C5_Witness ==
    /\ Returned
    /\ test.err = NoErr
    /\ Len(InItems) >= 2
    /\ test.cart.Total # 0
    /\ test.cart.Total # test.newCart.Total
    /\ \A i \in 1..Len(InItems) :
          InItems[i].DiscountedPrice # OutItems[i].DiscountedPrice

(* C6: a call of CalculateTotalWithDiscount, successful or failed, leaves the
   caller's cart and the array of its line items as they were, and the line
   items of the cart it returns are not the caller's array. *)
C6_InputNotMutated ==
    [][(test.pc = "built" /\ test'.pc = "returned")
        => /\ test'.cart = test.cart
           /\ test.cart.LineItems \in DOMAIN heap'
           /\ heap'[test.cart.LineItems] = heap[test.cart.LineItems]
           /\ test'.newCart.LineItems # test.cart.LineItems]_vars

\* a successful call wrote discounted prices that differ from the caller's
C6_Witness ==
    /\ Returned
    /\ test.err = NoErr
    /\ Len(InItems) >= 2
    /\ \A i \in 1..Len(InItems) :
          InItems[i].DiscountedPrice # OutItems[i].DiscountedPrice

(* C7: when rounding fails on a line item's discounted price or on the total,
   the call fails with an error and returns no priced cart. *)
C7_RoundingFailureFailsTheCall ==
    (Returned /\ faults # {} /\ Len(InItems) >= 1)
    => /\ test.err # NoErr
       /\ test.newCart = ZeroCart

\* The text parseFloat formats always parses: without a reported parse error
\* no rounded amount is the -1 of the error branch.
ParseFloatAcceptsFormatted ==
    (Returned /\ test.err = NoErr /\ faults = {})
    => /\ test.newCart.Total >= 0
       /\ \A i \in 1..Len(OutItems) : OutItems[i].DiscountedPrice >= 0

(* C10: getCheapestProduct returns an error and no item exactly when its
   candidate list is empty, and CalculateTotalWithDiscount never returns that
   error. *)
C10_EmptyListErrorUnreachable ==
    /\ sel.called =>
          IF Len(sel.items) = 0
          THEN sel.err = ErrEmptyList /\ sel.isNil
          ELSE sel.err = NoErr /\ ~sel.isNil
    /\ Returned => test.err # ErrEmptyList

\* a call that found a prerequisite and nothing eligible returned a priced cart
C10_Witness ==
    /\ Returned
    /\ test.err = NoErr
    /\ PrerequisitePresent(InItems)
    /\ EligibleIndexes(InItems) = {}

---------------------------------------------------------------------------
(* Properties of the request handler *)

\* request r has entered CalculateTotalWithDiscount
Invoked(r) == req[r].discountedItems # NilSlice

\* the line items request r decoded, if it decoded any cart
Decoded(r) == req[r].cart.LineItems \in DOMAIN heap

(* C8: a decoded submission with no line items is answered with a failure
   and never reaches the Cashier, so CalculateTotalWithDiscount is never
   entered with an empty cart; an error from the Cashier is answered with a
   failure that carries no cart, a success with the cart the Cashier
   computed. *)
C8_HandlerContract ==
    \A r \in Requests :
        /\ Invoked(r) => Decoded(r) /\ Len(heap[req[r].cart.LineItems]) > 0
        /\ (req[r].pc = "done" /\ Decoded(r) /\ Len(heap[req[r].cart.LineItems]) = 0)
              => /\ ~Invoked(r)
                 /\ req[r].resp.status = 400
                 /\ req[r].resp.json = <<>>
        /\ (req[r].pc = "done" /\ Invoked(r))
              => IF req[r].err # NoErr
                 THEN /\ req[r].resp.status = 400
                      /\ req[r].resp.json = <<>>
                 ELSE /\ req[r].resp.status = 200
                      /\ req[r].resp.json = <<Encode(req[r].newCart, heap)>>

\* one request was turned away for its empty cart, the other for the
\* Cashier's error
C8_Witness ==
    \E r1, r2 \in Requests :
        /\ req[r1].pc = "done"
        /\ Decoded(r1)
        /\ Len(heap[req[r1].cart.LineItems]) = 0
        /\ req[r1].resp.status = 400
        /\ req[r2].pc = "done"
        /\ Invoked(r2)
        /\ req[r2].err # NoErr
        /\ req[r2].resp.status = 400

\* what request r's cart yields when CalculateTotalWithDiscount runs on it alone
Alone(r) == CalculateTotalWithDiscount(NewCashier(config), req[r].cart, heap, r, {})

ResultIsOwn(r) ==
    LET alone == Alone(r)
    IN  IF alone.err # NoErr
        THEN /\ req[r].resp.status = 400
             /\ req[r].resp.json = <<>>
        ELSE /\ req[r].resp.status = 200
             /\ req[r].resp.json = <<Encode(alone.cart, alone.heap)>>

(* C9: whatever the interleaving of the requests' steps, the configuration
   is never written, and the answer to each request that reached the Cashier
   is the result of CalculateTotalWithDiscount run alone on that request's
   cart. *)
C9_RequestsIndependent ==
    /\ [][config' = config]_vars
    /\ [](\A r \in Requests : (req[r].pc = "done" /\ Invoked(r)) => ResultIsOwn(r))

\* a request was answered with its priced, discounted cart while another
\* request, on a different cart, was inside CalculateTotalWithDiscount
C9_Witness ==
    \E r1, r2 \in Requests :
        /\ r1 # r2
        /\ req[r1].pc = "done"
        /\ req[r1].resp.status = 200
        /\ req[r1].chosen.discountValue > 0
        /\ req[r2].pc = "loop"
        /\ req[r2].i = 2
        /\ heap[req[r1].cart.LineItems] # heap[req[r2].cart.LineItems]

===========================================================================
